---- MODULE Spec2Model ----
(***************************************************************************)
(* Model of package rescheduler (src/rescheduler.go).                      *)
(*                                                                         *)
(* A Rescheduler holds a mutex, a flag byte `me', the work function `call' *)
(* and a channel `done'.  Run() either starts the goroutine threadRun() or *)
(* sets the R_RERUN flag; threadRun() calls call() until no rerun is       *)
(* flagged, then closes and replaces `done'; Wait() receives from `done'.  *)
(*                                                                         *)
(* Every statement of Run() and threadRun() is one step.  Wait() reads the *)
(* field `done' without the lock: the read is a step of its own, and as it *)
(* races with the write of line 76 it may return any channel stored in the *)
(* field since the caller last synchronised with the instance.             *)
(***************************************************************************)
EXTENDS Naturals, FiniteSets

\* ---- bounds -------------------------------------------------------------
NumCallers == 2
MaxRuns == 3

Callers == 1..NumCallers
Workers == 1..MaxRuns

\* ---- program constants --------------------------------------------------
R_RUNNING == 1
R_RERUN == 2

\* ---- byte operators -----------------------------------------------------
RECURSIVE BitAnd(_, _)
BitAnd(a, b) ==
  IF a = 0 \/ b = 0 THEN 0
  ELSE (a % 2) * (b % 2) + 2 * BitAnd(a \div 2, b \div 2)

RECURSIVE BitOr(_, _)
BitOr(a, b) ==
  IF a = 0 THEN b
  ELSE IF b = 0 THEN a
  ELSE (IF (a % 2) + (b % 2) > 0 THEN 1 ELSE 0) + 2 * BitOr(a \div 2, b \div 2)

RECURSIVE BitXor(_, _)
BitXor(a, b) ==
  IF a = 0 THEN b
  ELSE IF b = 0 THEN a
  ELSE (((a % 2) + (b % 2)) % 2) + 2 * BitXor(a \div 2, b \div 2)

VARIABLES
  lock,     \* holder of r.lock
  me,       \* r.me, the flag byte
  done,     \* r.done, the channel the field refers to
  closed,   \* the channels that have been closed
  pc,       \* position of each caller in Run() or Wait()
  ch,       \* the channel a caller's Wait() read from r.done
  synced,   \* the callers that have synchronised with the instance since
            \* r.done was last assigned
  wpc,      \* position of each threadRun() goroutine
  nRun,     \* history: calls of Run() so far
  nCall,    \* history: executions of call() started so far
  req,      \* history: per caller, "owed" from its Run() until a call() that started
            \* after the Run() took effect returns; "served" from then on if the
            \* caller is in Wait(), until that Wait() returns
  cover,    \* history: per goroutine, the callers its current call() serves
  winBusy,  \* history: a Run() flagged a rerun since the last rerun check
  busyWins, \* history: rerun checks that were preceded by such a Run()
  kIn,      \* history: of the Run() calls of the last window that held one, those
            \* that flagged the rerun while call() was executing or had returned
  idleWait, \* history: waiters that began on an idle instance, no Run() since
  sawIdle,  \* history: waiters for which me was set to 0 after they began
  late      \* history: callers whose Run() flagged a rerun between the return of
            \* call() and the rerun check, until the second check after it

vars == <<lock, me, done, closed, pc, ch, synced, wpc, nRun, nCall, req, cover,
          winBusy, busyWins, kIn, idleWait, sawIdle, late>>

hist == <<nRun, nCall, req, cover, winBusy, busyWins, kIn, idleWait, sawIdle,
          late>>

NoHolder == <<"none", 0>>
RunHolder(p) == <<"Run", p>>
ThreadHolder(w) == <<"threadRun", w>>

Owed == {p \in Callers : req[p] = "owed"}
InCall == {w \in Workers : wpc[w] = "call"}
InExec == {w \in Workers : wpc[w] \in {"call", "lock"}}
Live == {w \in Workers : wpc[w] \notin {"unborn", "exited", "panic"}}
Spawned == {w \in Workers : wpc[w] # "unborn"}
RunPcs == {"run_lock", "run_locked", "run_rerun", "run_set", "run_go"}
WaitPcs == {"wait_read", "wait_recv"}

\* ---- NewRescheduler (lines 23-30) ----------------------------------------
Init ==
  /\ lock = NoHolder
  /\ me = 0
  /\ done = 0
  /\ closed = {}
  /\ pc = [p \in Callers |-> "idle"]
  /\ ch = [p \in Callers |-> 0]
  /\ synced = Callers
  /\ wpc = [w \in Workers |-> "unborn"]
  /\ nRun = 0
  /\ nCall = 0
  /\ req = [p \in Callers |-> "none"]
  /\ cover = [w \in Workers |-> {}]
  /\ winBusy = FALSE
  /\ busyWins = 0
  /\ kIn = 0
  /\ idleWait = {}
  /\ sawIdle = {}
  /\ late = {}

\* ---- conditions and assignments of the code ------------------------------
\* variant: the byte is compared with R_RUNNING instead of being masked
IsRunningExact(m) == m = R_RUNNING

\* line 44: r.me&R_RUNNING == 1
IsRunning(m) == BitAnd(m, R_RUNNING) = 1

\* variant: the flag is added, so a second request carries into the next bit
SetRerunAdd(m) == (m + R_RERUN) % 256

\* variant: &= in place of |=
SetRerunAnd(m) == BitAnd(m, R_RERUN)

\* line 46: r.me |= R_RERUN
SetRerun(m) == BitOr(m, R_RERUN)

\* variant: the running flag is tested in place of the rerun flag
NoRerunWrongBit(m) == BitAnd(m, R_RUNNING) = 0

\* variant: the test is inverted
NoRerunInverted(m) == BitAnd(m, R_RERUN) # 0

\* line 71: r.me&R_RERUN == 0
NoRerun(m) == BitAnd(m, R_RERUN) = 0

\* variant: the running flag is flipped in place of the rerun flag
FlipRerunWrongBit(m) == BitXor(m, R_RUNNING)

\* line 81: r.me ^= R_RERUN
FlipRerun(m) == BitXor(m, R_RERUN)

\* a Run() takes effect for caller p: call() must start after this point
Request(p) ==
  /\ req' = [req EXCEPT ![p] = "owed"]
  /\ cover' = [w \in Workers |-> cover[w] \ {p}]

\* the instance is idle: no flag, no goroutine, no Run() under way
IdleInstance ==
  /\ me = 0
  /\ Live = {}
  /\ lock = NoHolder
  /\ \A p \in Callers : pc[p] \notin RunPcs

\* ---- Run (lines 41-57) ----------------------------------------------------
\* a caller enters Run()
RunBegin(p) ==
  /\ pc[p] = "idle"
  /\ nRun < MaxRuns
  /\ pc' = [pc EXCEPT ![p] = "run_lock"]
  /\ nRun' = nRun + 1
  /\ idleWait' = {}
  /\ Request(p)
  /\ UNCHANGED <<lock, me, done, closed, ch, synced, wpc>>
  /\ late' = late \ {p}
  /\ UNCHANGED <<nCall, winBusy, busyWins, kIn, sawIdle>>

\* line 42: r.lock.Lock()
RunLock(p) ==
  /\ pc[p] = "run_lock"
  /\ lock = NoHolder
  /\ lock' = RunHolder(p)
  /\ pc' = [pc EXCEPT ![p] = "run_locked"]
  /\ synced' = synced \cup {p}
  /\ UNCHANGED <<me, done, closed, ch, wpc>>
  /\ UNCHANGED hist

\* lines 44-46: the running flag is set, flag a rerun
RunFlagRerun(p) ==
  /\ pc[p] = "run_locked"
  /\ IsRunning(me)
  /\ me' = SetRerun(me)
  /\ pc' = [pc EXCEPT ![p] = "run_rerun"]
  /\ winBusy' = TRUE
  /\ kIn' = (IF winBusy THEN kIn ELSE 0) + (IF InExec # {} THEN 1 ELSE 0)
  /\ Request(p)
  /\ UNCHANGED <<lock, done, closed, ch, synced, wpc>>
  /\ late' = IF \E w \in Workers : wpc[w] = "lock" THEN late \cup {p} ELSE late
  /\ UNCHANGED <<nRun, nCall, busyWins, idleWait, sawIdle>>

\* lines 47-48: r.lock.Unlock(); return
RunRerunUnlock(p) ==
  /\ pc[p] = "run_rerun"
  /\ lock' = NoHolder
  /\ pc' = [pc EXCEPT ![p] = "idle"]
  /\ UNCHANGED <<me, done, closed, ch, synced, wpc>>
  /\ UNCHANGED hist

\* lines 44, 52: the running flag is clear, r.me = R_RUNNING
RunSetRunning(p) ==
  /\ pc[p] = "run_locked"
  /\ ~IsRunning(me)
  /\ me' = R_RUNNING
  /\ pc' = [pc EXCEPT ![p] = "run_set"]
  /\ Request(p)
  /\ UNCHANGED <<lock, done, closed, ch, synced, wpc>>
  /\ UNCHANGED <<nRun, nCall, winBusy, busyWins, kIn, idleWait, sawIdle, late>>

\* line 53: r.lock.Unlock()
RunStartUnlock(p) ==
  /\ pc[p] = "run_set"
  /\ lock' = NoHolder
  /\ pc' = [pc EXCEPT ![p] = "run_go"]
  /\ UNCHANGED <<me, done, closed, ch, synced, wpc>>
  /\ UNCHANGED hist

\* line 56: go r.threadRun()
RunGo(p) ==
  /\ pc[p] = "run_go"
  /\ \E w \in Workers :
       /\ wpc[w] = "unborn"
       /\ \A v \in Workers : v < w => wpc[v] # "unborn"
       /\ wpc' = [wpc EXCEPT ![w] = "start"]
  /\ pc' = [pc EXCEPT ![p] = "idle"]
  /\ UNCHANGED <<lock, me, done, closed, ch, synced>>
  /\ UNCHANGED hist

\* ---- threadRun (lines 64-84) ----------------------------------------------
\* line 67: r.call() is entered
ThreadCall(w) ==
  /\ wpc[w] = "start"
  /\ wpc' = [wpc EXCEPT ![w] = "call"]
  /\ nCall' = nCall + 1
  /\ cover' = [cover EXCEPT ![w] = Owed]
  /\ UNCHANGED <<lock, me, done, closed, pc, ch, synced>>
  /\ UNCHANGED <<nRun, req, winBusy, busyWins, kIn, idleWait, sawIdle, late>>

\* line 67: r.call() returns
ThreadCallReturn(w) ==
  /\ wpc[w] = "call"
  /\ wpc' = [wpc EXCEPT ![w] = "lock"]
  /\ req' = [p \in Callers |->
               IF p \notin cover[w] THEN req[p]
               ELSE IF pc[p] \in WaitPcs THEN "served" ELSE "none"]
  /\ cover' = [cover EXCEPT ![w] = {}]
  /\ UNCHANGED <<lock, me, done, closed, pc, ch, synced>>
  /\ UNCHANGED <<nRun, nCall, winBusy, busyWins, kIn, idleWait, sawIdle, late>>

\* line 70: r.lock.Lock()
ThreadLock(w) ==
  /\ wpc[w] = "lock"
  /\ lock = NoHolder
  /\ lock' = ThreadHolder(w)
  /\ wpc' = [wpc EXCEPT ![w] = "locked"]
  /\ UNCHANGED <<me, done, closed, pc, ch, synced>>
  /\ UNCHANGED hist

\* the rerun check of line 71 closes the window in which Run() calls are
\* collected
CloseWindow ==
  /\ busyWins' = IF winBusy THEN busyWins + 1 ELSE busyWins
  /\ winBusy' = FALSE
  /\ late' = late \cap Owed

\* variant: the assignment r.me = 0 of line 73 is missing
ThreadClearMissing(w) ==
  /\ wpc[w] = "locked"
  /\ NoRerun(me)
  /\ wpc' = [wpc EXCEPT ![w] = "close"]
  /\ sawIdle' = sawIdle \cup {p \in Callers : pc[p] \in WaitPcs}
  /\ CloseWindow
  /\ UNCHANGED <<lock, me, done, closed, pc, ch, synced>>
  /\ UNCHANGED <<nRun, nCall, req, cover, kIn, idleWait>>

\* lines 71-73: no rerun is flagged, r.me = 0
ThreadClear(w) ==
  /\ wpc[w] = "locked"
  /\ NoRerun(me)
  /\ me' = 0
  /\ wpc' = [wpc EXCEPT ![w] = "close"]
  /\ sawIdle' = sawIdle \cup {p \in Callers : pc[p] \in WaitPcs}
  /\ CloseWindow
  /\ UNCHANGED <<lock, done, closed, pc, ch, synced>>
  /\ UNCHANGED <<nRun, nCall, req, cover, kIn, idleWait>>

\* variant: the close of line 75 is missing
ThreadCloseMissing(w) ==
  /\ wpc[w] = "close"
  /\ wpc' = [wpc EXCEPT ![w] = "make"]
  /\ UNCHANGED <<lock, me, done, closed, pc, ch, synced>>
  /\ UNCHANGED hist

\* line 75: close(r.done); closing a closed channel panics
ThreadClose(w) ==
  /\ wpc[w] = "close"
  /\ IF done \in closed
       THEN /\ wpc' = [wpc EXCEPT ![w] = "panic"]
            /\ closed' = closed
       ELSE /\ wpc' = [wpc EXCEPT ![w] = "make"]
            /\ closed' = closed \cup {done}
  /\ UNCHANGED <<lock, me, done, pc, ch, synced>>
  /\ UNCHANGED hist

\* variant: the channel is not replaced after the close
ThreadMakeMissing(w) ==
  /\ wpc[w] = "make"
  /\ wpc' = [wpc EXCEPT ![w] = "unlock_exit"]
  /\ UNCHANGED <<lock, me, done, closed, pc, ch, synced>>
  /\ UNCHANGED hist

\* line 76: r.done = make(chan struct{}, 1)
ThreadMake(w) ==
  /\ wpc[w] = "make"
  /\ done' = done + 1
  /\ synced' = {}
  /\ wpc' = [wpc EXCEPT ![w] = "unlock_exit"]
  /\ UNCHANGED <<lock, me, closed, pc, ch>>
  /\ UNCHANGED hist

\* lines 77-78: r.lock.Unlock(); break
ThreadExit(w) ==
  /\ wpc[w] = "unlock_exit"
  /\ lock' = NoHolder
  /\ wpc' = [wpc EXCEPT ![w] = "exited"]
  /\ UNCHANGED <<me, done, closed, pc, ch, synced>>
  /\ UNCHANGED hist

\* lines 71, 81: a rerun is flagged, r.me ^= R_RERUN
ThreadFlip(w) ==
  /\ wpc[w] = "locked"
  /\ ~NoRerun(me)
  /\ me' = FlipRerun(me)
  /\ wpc' = [wpc EXCEPT ![w] = "unlock_loop"]
  /\ CloseWindow
  /\ UNCHANGED <<lock, done, closed, pc, ch, synced>>
  /\ UNCHANGED <<nRun, nCall, req, cover, kIn, idleWait, sawIdle>>

\* variant: the Unlock() of line 82 is missing
ThreadLoopNoUnlock(w) ==
  /\ wpc[w] = "unlock_loop"
  /\ wpc' = [wpc EXCEPT ![w] = "start"]
  /\ UNCHANGED <<lock, me, done, closed, pc, ch, synced>>
  /\ UNCHANGED hist

\* lines 82-83: r.lock.Unlock(); next iteration
ThreadLoop(w) ==
  /\ wpc[w] = "unlock_loop"
  /\ lock' = NoHolder
  /\ wpc' = [wpc EXCEPT ![w] = "start"]
  /\ UNCHANGED <<me, done, closed, pc, ch, synced>>
  /\ UNCHANGED hist

\* ---- Wait (lines 87-89) ---------------------------------------------------
\* a caller enters Wait()
WaitBegin(p) ==
  /\ pc[p] = "idle"
  /\ pc' = [pc EXCEPT ![p] = "wait_read"]
  /\ idleWait' = IF IdleInstance THEN idleWait \cup {p} ELSE idleWait \ {p}
  /\ sawIdle' = sawIdle \ {p}
  /\ UNCHANGED <<lock, me, done, closed, ch, synced, wpc>>
  /\ UNCHANGED <<nRun, nCall, req, cover, winBusy, busyWins, kIn, late>>

\* the values the unlocked read of r.done may return to caller p: the
\* current one, and, when line 76 assigned the field after p last took the
\* lock or received from the channel, an earlier one.  Every earlier
\* channel was closed before it was replaced, so the latest of them stands
\* for all.
Readable(p) ==
  IF p \in synced \/ done = 0 THEN {done} ELSE {done - 1, done}

\* line 88: the operand r.done is read, without the lock; the read races
\* with the write of line 76
WaitRead(p) ==
  /\ pc[p] = "wait_read"
  /\ \E c \in Readable(p) : ch' = [ch EXCEPT ![p] = c]
  /\ pc' = [pc EXCEPT ![p] = "wait_recv"]
  /\ UNCHANGED <<lock, me, done, closed, synced, wpc>>
  /\ UNCHANGED hist

\* line 88: the receive; nothing is ever sent, so it completes only once the
\* channel is closed
WaitRecv(p) ==
  /\ pc[p] = "wait_recv"
  /\ ch[p] \in closed
  /\ pc' = [pc EXCEPT ![p] = "idle"]
  /\ synced' = IF ch[p] = done THEN synced \cup {p} ELSE synced
  /\ ch' = [ch EXCEPT ![p] = 0]
  /\ idleWait' = idleWait \ {p}
  /\ sawIdle' = sawIdle \ {p}
  /\ req' = [req EXCEPT ![p] = IF req[p] = "served" THEN "none" ELSE req[p]]
  /\ UNCHANGED <<lock, me, done, closed, wpc>>
  /\ UNCHANGED <<nRun, nCall, cover, winBusy, busyWins, kIn, late>>

\* ---- specifications -------------------------------------------------------
Next ==
  \/ \E p \in Callers : RunBegin(p)
  \/ \E p \in Callers : RunLock(p)
  \/ \E p \in Callers : RunFlagRerun(p)
  \/ \E p \in Callers : RunRerunUnlock(p)
  \/ \E p \in Callers : RunSetRunning(p)
  \/ \E p \in Callers : RunStartUnlock(p)
  \/ \E p \in Callers : RunGo(p)
  \/ \E w \in Workers : ThreadCall(w)
  \/ \E w \in Workers : ThreadCallReturn(w)
  \/ \E w \in Workers : ThreadLock(w)
  \/ \E w \in Workers : ThreadClear(w)
  \/ \E w \in Workers : ThreadClose(w)
  \/ \E w \in Workers : ThreadMake(w)
  \/ \E w \in Workers : ThreadExit(w)
  \/ \E w \in Workers : ThreadFlip(w)
  \/ \E w \in Workers : ThreadLoop(w)
  \/ \E p \in Callers : WaitBegin(p)
  \/ \E p \in Callers : WaitRead(p)
  \/ \E p \in Callers : WaitRecv(p)

Spec == Init /\ [][Next]_vars

\* ---- fairness -------------------------------------------------------------
\* the steps of a caller inside Run() or Wait()
CallerStep(p) ==
  \/ RunLock(p)
  \/ RunFlagRerun(p)
  \/ RunRerunUnlock(p)
  \/ RunSetRunning(p)
  \/ RunStartUnlock(p)
  \/ RunGo(p)
  \/ WaitRead(p)
  \/ WaitRecv(p)

\* the steps of threadRun() outside call()
ThreadStep(w) ==
  \/ ThreadCall(w)
  \/ ThreadLock(w)
  \/ ThreadClear(w)
  \/ ThreadClose(w)
  \/ ThreadMake(w)
  \/ ThreadExit(w)
  \/ ThreadFlip(w)
  \/ ThreadLoop(w)

\* A goroutine that can take its next step takes it.  A goroutine takes one
\* step at a time, so weak fairness of the disjunction is weak fairness of
\* each statement.  Weak fairness is enough for Lock() too: the lock is
\* taken finitely often, and sync.Mutex guarantees more (a waiter that keeps
\* waiting is handed the lock).
Scheduling ==
  /\ \A p \in Callers : WF_vars(CallerStep(p))
  /\ \A w \in Workers : WF_vars(ThreadStep(w))

\* every call() returns
WorkReturns == \A w \in Workers : WF_vars(ThreadCallReturn(w))

\* fair scheduling, call() may run forever
HangSpec == Spec /\ Scheduling

\* fair scheduling, call() returns
LiveSpec == Spec /\ Scheduling /\ WorkReturns

\* ---- properties -----------------------------------------------------------
\* no goroutine is alive, no Run() is under way, the lock is free
Quiescent ==
  /\ Live = {}
  /\ lock = NoHolder
  /\ \A p \in Callers : pc[p] \notin RunPcs

PendingStart == {w \in Workers : wpc[w] \in {"start", "unlock_loop"}}

\* C2: at most one execution of call() is in progress at any time, whatever
\* the callers of Run() and Wait() do.
C2_MutualExclusion == Cardinality(InCall) <= 1

C2_Witness ==
  /\ Cardinality(InCall) = 1
  /\ \E p \in Callers : pc[p] = "run_rerun"
  /\ \E q \in Callers : pc[q] = "wait_recv"

\* C3 as claimed: a burst of N >= 2 Run() calls of which all but the first
\* find the instance busy (one goroutine is launched for the whole burst)
\* ends with exactly 2 executions of call().
C3_BurstAsClaimed ==
  (Quiescent /\ nRun >= 2 /\ Cardinality(Spawned) = 1) => nCall = 2

\* C3 amended: a burst of N >= 2 Run() calls of which all but the first find
\* the instance busy and take effect before the first rerun check of the
\* goroutine ends with exactly 2 executions of call().
C3_BurstFirstWindow ==
  (Quiescent /\ nRun >= 2 /\ Cardinality(Spawned) = 1 /\ busyWins = 1)
    => nCall = 2

C3_Witness ==
  /\ Quiescent
  /\ nRun = 3
  /\ Cardinality(Spawned) = 1
  /\ busyWins = 1
  /\ nCall = 2
  /\ me = 0

\* C4: when a Wait() returns to a caller that called Run() before it, a
\* call() that started after that Run() took effect has returned.
C4_WaitAfterRun ==
  [][\A p \in Callers :
       (pc[p] = "wait_recv" /\ pc'[p] = "idle") => req[p] # "owed"]_vars

C4_Witness ==
  \E p \in Callers :
    /\ pc[p] = "wait_recv"
    /\ ch[p] \in closed
    /\ req[p] = "served"
    /\ nRun = 1

\* C6: a single Run() on a new instance gives exactly one execution of
\* call(); after it the instance is idle and call() is not executed again.
C6_SingleRun ==
  nRun = 1 =>
    /\ nCall <= 1
    /\ (Quiescent /\ Spawned # {}) => (nCall = 1 /\ InCall = {} /\ me = 0)

C6_Witness ==
  /\ nRun = 1
  /\ Quiescent
  /\ Spawned # {}
  /\ nCall = 1
  /\ me = 0

\* C7 as claimed: a Wait() returns only after me has been set to 0 at some
\* point after that Wait() began.
C7_WaitSeesIdle ==
  [][\A p \in Callers :
       (pc[p] = "wait_recv" /\ pc'[p] = "idle") => p \in sawIdle]_vars

\* C9: each window between two rerun checks in which one or more Run()
\* calls flagged a rerun accounts for exactly one further execution of
\* call(), however many calls it holds: the executions started or about to
\* start are the goroutines launched plus the windows that held a request.
C9_OneRerunPerWindow ==
  nCall + Cardinality(PendingStart) = Cardinality(Spawned) + busyWins

C9_Witness ==
  /\ kIn >= 2
  /\ busyWins = 1
  /\ nCall = 2
  /\ Cardinality(Spawned) = 1
  /\ \E w \in Workers : wpc[w] = "exited"

\* C10: me is 0, R_RUNNING or R_RUNNING|R_RERUN, and it changes only by the
\* transitions of the table: Run() takes 0 to 1, 1 to 3 and 3 to 3, the
\* rerun check takes 1 to 0 and 3 to 1.
RunTakesEffect == \E p \in Callers : pc[p] = "run_locked" /\ pc'[p] # "run_locked"

RerunChecked == \E w \in Workers : wpc[w] = "locked" /\ wpc'[w] # "locked"

C10_StateTable ==
  [][/\ me \in {0, R_RUNNING, R_RUNNING + R_RERUN}
     /\ me' \in {0, R_RUNNING, R_RUNNING + R_RERUN}
     /\ RunTakesEffect =>
          me' = IF me = 0 THEN R_RUNNING ELSE R_RUNNING + R_RERUN
     /\ RerunChecked =>
          /\ me # 0
          /\ me' = IF me = R_RUNNING THEN 0 ELSE R_RUNNING
     /\ (~RunTakesEffect /\ ~RerunChecked) => me' = me]_vars

C10_Witness ==
  /\ me = R_RUNNING
  /\ busyWins >= 1
  /\ \E w \in Workers : wpc[w] = "exited"
  /\ \E p \in Callers : pc[p] = "run_set"

\* C1: every Run() is followed by an execution of call() that starts after
\* the Run() took effect and returns, under fair scheduling when call()
\* returns; also for a Run() that arrives between the return of call() and
\* the rerun check.
C1_RunIsServed == \A p \in Callers : (req[p] = "owed") ~> (req[p] # "owed")

C1_Witness ==
  \E p \in late :
    /\ req[p] = "none"
    /\ pc[p] = "idle"
    /\ nCall = 2

\* C5 as claimed: a Wait() that begins on an idle instance, with no Run()
\* called afterwards, returns.
C5_IdleWaitReturns == \A p \in Callers : (p \in idleWait) ~> (p \notin idleWait)

\* C8: the lock is held by the goroutine only between its Lock() and
\* Unlock(), never while it executes call(), and every Run() returns under
\* fair scheduling even if call() does not.
C8_RunReturns ==
  /\ [](\A w \in Workers :
          lock = ThreadHolder(w) =>
            wpc[w] \in {"locked", "close", "make", "unlock_exit", "unlock_loop"})
  /\ \A p \in Callers : (pc[p] \in RunPcs) ~> (pc[p] \notin RunPcs)

C8_Witness ==
  /\ InCall # {}
  /\ winBusy
  /\ kIn >= 1
  /\ lock = NoHolder
  /\ \A p \in Callers : pc[p] = "idle"

\* the goroutines launched and not yet past the assignment r.me = 0
Active ==
  {w \in Workers : wpc[w] \in {"start", "call", "lock", "locked", "unlock_loop"}}

\* C11: at most one threadRun goroutine is launched and not yet past its
\* transition to idle; while there is one, me is not 0; a goroutine is
\* launched only by the Run() that took me from 0 to R_RUNNING; a Run() that
\* finds me not 0 launches none.
C11_OneWorker ==
  /\ [](Cardinality(Active) <= 1 /\ (Active # {} => me # 0))
  /\ [][/\ Spawned' # Spawned =>
             \E p \in Callers : pc[p] = "run_go" /\ pc'[p] = "idle"
        /\ \A p \in Callers :
             /\ (pc[p] = "run_locked" /\ pc'[p] = "run_set") =>
                  (me = 0 /\ me' = R_RUNNING)
             /\ (pc[p] = "run_locked" /\ pc'[p] # pc[p] /\ me # 0) =>
                  (pc'[p] = "run_rerun" /\ Spawned' = Spawned)
             /\ (pc[p] = "run_rerun" /\ pc'[p] = "idle") => Spawned' = Spawned]_vars

C11_Witness ==
  /\ \E w \in Workers : wpc[w] = "exited"
  /\ \E w \in Workers : wpc[w] = "call"
  /\ \E p \in Callers : pc[p] = "run_rerun"
  /\ Cardinality(Spawned) = 2

\* C12 as claimed: every step that reads or writes me, or reads, closes or
\* replaces done, is taken by the holder of the lock.
C12_LockDiscipline ==
  [][/\ \A p \in Callers :
          (pc[p] \in {"run_locked", "wait_read"} /\ pc'[p] # pc[p]) =>
            lock = RunHolder(p)
     /\ \A w \in Workers :
          (wpc[w] \in {"locked", "close", "make"} /\ wpc'[w] # wpc[w]) =>
            lock = ThreadHolder(w)]_vars

\* ---- failure of call() ----------------------------------------------------
\* line 67: r.call() does not return: the goroutine ends inside it
\* (runtime.Goexit, or a panic, which threadRun does not recover and which
\* ends the whole program: the behaviours in which no step follows)
ThreadCallFail(w) ==
  /\ wpc[w] = "call"
  /\ wpc' = [wpc EXCEPT ![w] = "failed"]
  /\ UNCHANGED <<lock, me, done, closed, pc, ch, synced>>
  /\ UNCHANGED hist

FailNext ==
  \/ Next
  \/ \E w \in Workers : ThreadCallFail(w)

\* the program with a call() that may fail
FailSpec == Init /\ [][FailNext]_vars

Failed == \E w \in Workers : wpc[w] = "failed"

\* what C13 says of every step but the return of a Wait(): after a failure
\* me stays non-zero, done is neither closed nor replaced, no goroutine is
\* launched, call() is not executed and a Run() only flags the rerun
StuckAfterFailure ==
  /\ me # 0
  /\ me' # 0
  /\ closed' = closed
  /\ done' = done
  /\ Spawned' = Spawned
  /\ nCall' = nCall
  /\ \A p \in Callers :
       (pc[p] = "run_locked" /\ pc'[p] # pc[p]) =>
         (pc'[p] = "run_rerun" /\ me' = R_RUNNING + R_RERUN)

\* C13 as claimed: after a failure of call() the instance is stuck and no
\* Wait(), current or future, returns.
C13_FailureAsClaimed ==
  [][Failed =>
       /\ StuckAfterFailure
       /\ \A p \in Callers : ~(pc[p] = "wait_recv" /\ pc'[p] = "idle")]_vars

\* C13 amended: after a failure of call() the instance is stuck and no
\* Wait() that receives from the channel r.done then refers to returns.
C13_FailureStuck ==
  [][Failed =>
       /\ StuckAfterFailure
       /\ \A p \in Callers :
            (pc[p] = "wait_recv" /\ ch[p] = done) => pc'[p] = "wait_recv"]_vars

C13_Witness ==
  /\ Failed
  /\ me = R_RUNNING + R_RERUN
  /\ \E p \in Callers : pc[p] = "wait_recv" /\ ch[p] = done /\ done \notin closed
  /\ \E q \in Callers : pc[q] = "run_rerun"

\* C14: the goroutine closes done and replaces it by a channel that is not
\* closed while it holds the lock, after setting me to 0; the close
\* releases every Wait() that holds the channel, and every Wait() that
\* holds a channel while me is not 0 returns, whatever their number.
C14_Broadcast ==
  /\ [][\A w \in Workers :
          /\ (wpc[w] = "close" /\ wpc'[w] # wpc[w]) =>
               /\ lock = ThreadHolder(w)
               /\ lock' = lock
               /\ me = 0
               /\ closed' = closed \cup {done}
               /\ \A p \in Callers :
                    (pc[p] = "wait_recv" /\ ch[p] = done) => ch[p] \in closed'
          /\ (wpc[w] = "make" /\ wpc'[w] # wpc[w]) =>
               /\ lock = ThreadHolder(w)
               /\ lock' = lock
               /\ done' # done
               /\ done' \notin closed']_vars
  /\ \A p \in Callers : (pc[p] = "wait_recv" /\ me # 0) ~> (pc[p] = "idle")

C14_Witness ==
  /\ \A p \in Callers : pc[p] = "wait_recv" /\ ch[p] = done
  /\ done \in closed
  /\ \E w \in Workers : wpc[w] = "make"

\* C15: with finitely many Run() calls, returning call() and fair
\* scheduling, the goroutine exits and the instance reaches and stays in the
\* idle state, me = 0.
C15_CycleEnds == <>[](me = 0 /\ Live = {} /\ lock = NoHolder)

C15_Witness ==
  /\ Quiescent
  /\ me = 0
  /\ nRun >= 2
  /\ busyWins >= 1
  /\ \A w \in Workers : wpc[w] \in {"unborn", "exited"}
  /\ \A p \in Callers : pc[p] = "idle"

\* C16: no goroutine closes a closed channel; whenever the lock is free
\* done refers to a channel that is not closed.
C16_NoDoubleClose ==
  /\ \A w \in Workers : wpc[w] # "panic"
  /\ \A w \in Workers : wpc[w] = "close" => done \notin closed
  /\ lock = NoHolder => done \notin closed

C16_Witness ==
  /\ Cardinality(closed) = 2
  /\ done \notin closed
  /\ lock = NoHolder
  /\ \E w \in Workers : wpc[w] = "call"

\* the Run() calls that have passed the test of line 44
RunsInEffect ==
  nRun - Cardinality({p \in Callers : pc[p] \in {"run_lock", "run_locked"}})

\* C17: call() has started at most as many times as Run() calls have taken
\* effect, and never on an instance whose Run() was never called.
C17_NoSpuriousCall == nCall <= RunsInEffect /\ (nRun = 0 => nCall = 0)

C17_Witness ==
  /\ nCall = 2
  /\ RunsInEffect = 2
  /\ busyWins = 1
  /\ \E w \in Workers : wpc[w] = "call"

\* C18: a step of Wait() changes neither me nor done, closes nothing and
\* leaves the lock and the goroutines alone; a step of Run() neither
\* replaces nor closes done; a Run() that finds me not 0 sets the rerun bit
\* and changes no other bit of me, and launches no goroutine.
C18_Frame ==
  [][\A p \in Callers :
       /\ ((pc[p] \in WaitPcs \/ pc'[p] \in WaitPcs) /\ pc'[p] # pc[p]) =>
            /\ me' = me
            /\ done' = done
            /\ closed' = closed
            /\ lock' = lock
            /\ wpc' = wpc
       /\ ((pc[p] \in RunPcs \/ pc'[p] \in RunPcs) /\ pc'[p] # pc[p]) =>
            /\ done' = done
            /\ closed' = closed
       /\ (pc[p] = "run_locked" /\ pc'[p] # pc[p] /\ me # 0) =>
            /\ me' % 2 = me % 2
            /\ (me' \div 2) % 2 = 1
            /\ me' \div 4 = me \div 4
            /\ wpc' = wpc
            /\ done' = done
            /\ closed' = closed
       /\ (pc[p] = "run_rerun" /\ pc'[p] # pc[p]) =>
            /\ me' = me
            /\ wpc' = wpc
            /\ done' = done
            /\ closed' = closed]_vars

C18_Witness ==
  /\ me = R_RUNNING + R_RERUN
  /\ kIn >= 2
  /\ \E p \in Callers : pc[p] = "run_rerun"
  /\ \E q \in Callers : pc[q] = "wait_recv" /\ ch[q] = done

====
